---- MODULE Spec2Model ----
(***************************************************************************)
(* Payment workflows of app/controllers/payments.js: the card workflow     *)
(* `post`, the wallet initiation `paypalDonation` and the wallet callback  *)
(* `paypalCallback`.  Each invocation runs one async.auto graph; every     *)
(* provider or storage call is one action (the call takes effect and its   *)
(* callback runs), so invocations interleave at call boundaries.          *)
(* Tables and provider collections are sets of rows.  Ids are unique; an   *)
(* invocation creates at most one row per table, and the id of a row is    *)
(* the number of the invocation that created it.  0 stands for null.       *)
(***************************************************************************)
EXTENDS Integers, Sequences, FiniteSets, TLC

\* Number of workflow invocations (HTTP requests) in a behaviour.
MaxInv == 2

Invocations == 1..MaxInv

VARIABLES
  inv,                 \* per invocation: request, task states, results, completion
  paymentMethods,      \* models.PaymentMethod rows
  stripeCustomers,     \* customers at the card provider
  stripePlans,         \* plans at the card provider
  stripeCharges,       \* charges at the card provider
  stripeSubscriptions, \* subscriptions at the card provider
  donations,           \* models.Donation rows
  transactions,        \* Transaction rows (deleted = provisional)
  subscriptions,       \* local Subscription rows
  users,               \* models.User rows
  userGroups,          \* models.UserGroup rows
  billingPlans,        \* billing plans at the wallet provider
  billingAgreements    \* billing agreements at the wallet provider

tables == <<paymentMethods, stripeCustomers, stripePlans, stripeCharges,
            stripeSubscriptions, donations, transactions, subscriptions,
            users, userGroups, billingPlans, billingAgreements>>

vars == <<inv, paymentMethods, stripeCustomers, stripePlans, stripeCharges,
          stripeSubscriptions, donations, transactions, subscriptions,
          users, userGroups, billingPlans, billingAgreements>>

(***************************************************************************)
(* Requests.                                                               *)
(***************************************************************************)
\* payment.interval; "" is an absent interval
Intervals == {"", "month", "week"}
\* payment.stripeToken; "" is an absent token
StripeTokens == {"", "tok_a", "tok_b"}
\* payment.amount when present
Amounts == {0, -1, 10}
\* payment.currency; "" is absent
Currencies == {""}

\* req.required.payment; hasAmount is FALSE for a payment without amount
Payments ==
  {p \in [interval : Intervals, stripeToken : StripeTokens, hasAmount : BOOLEAN,
          amount : Amounts, currency : Currencies] : p.hasAmount \/ p.amount = 0}

\* the number of fields in which two payments differ
Differences(p, q) ==
  Cardinality({f \in {"interval", "stripeToken", "currency"} : p[f] # q[f]})
  + (IF p.hasAmount # q.hasAmount \/ p.amount # q.amount THEN 1 ELSE 0)

\* a well-formed one-time card payment
CardPayment ==
  [interval |-> "", stripeToken |-> "tok_a", hasAmount |-> TRUE, amount |-> 10,
   currency |-> ""]

\* a well-formed wallet payment (paypalDonation reads no stripeToken)
WalletPayment ==
  [interval |-> "month", stripeToken |-> "", hasAmount |-> TRUE, amount |-> 10,
   currency |-> ""]

\* the payments sent to post: the well-formed one and those one field away
PostPayments == {p \in Payments : Differences(p, CardPayment) <= 1}

\* the payments sent to paypalDonation
PaypalPayments == {p \in Payments : Differences(p, WalletPayment) <= 1 /\ p.stripeToken = ""}

\* req.query.token of the wallet callback; "" is absent
CallbackTokens == {"", "EC-token"}
\* payer e-mails the wallet provider may report
PayerEmails == {"user1@example.com", "payer@example.com"}

\* req.user
reqUser == [id |-> MaxInv + 1, email |-> "user1@example.com"]
\* req.group
group == [id |-> "collective1", currency |-> "USD"]
\* roles.BACKER
BACKER == "BACKER"
\* the platform fee in percent
OC_FEE_PERCENT == 5

PostSteps == {"getGroupStripeAccount", "getExistingPaymentMethod", "createCustomer",
              "createPaymentMethod", "createCharge", "createDonation",
              "createTransaction", "sendThankYouEmail", "addUserToGroup"}
PaypalSteps == {"getPaypalConfig", "createTransaction", "createPlan", "activatePlan",
                "createBillingAgreement", "updateSubscription"}
CallbackSteps == {"getPaypalConfig", "executeBillingAgreement", "activateSubscription",
                  "getOrCreateUser", "addUserToGroup", "updateTransaction"}

StepsOf(kind) ==
  CASE kind = "post" -> PostSteps
    [] kind = "paypal" -> PaypalSteps
    [] kind = "paypalCallback" -> CallbackSteps
    [] OTHER -> {}

\* PostDeps with createDonation declared on createPaymentMethod instead of createCharge
PostDeps_DonationBeforeCharge(s) ==
  CASE s = "getGroupStripeAccount" -> {}
    [] s = "getExistingPaymentMethod" -> {"getGroupStripeAccount"}
    [] s = "createCustomer" -> {"getGroupStripeAccount", "getExistingPaymentMethod"}
    [] s = "createPaymentMethod" -> {"createCustomer", "getExistingPaymentMethod"}
    [] s = "createCharge" -> {"getGroupStripeAccount", "createPaymentMethod"}
    [] s = "createDonation" -> {"createPaymentMethod"}
    [] s = "createTransaction" -> {"createDonation"}
    [] s = "sendThankYouEmail" -> {"createDonation"}
    [] s = "addUserToGroup" -> {"createTransaction"}

\* PostDeps with addUserToGroup declared on createPaymentMethod instead of
\* createTransaction
PostDeps_MembershipBeforeCharge(s) ==
  CASE s = "getGroupStripeAccount" -> {}
    [] s = "getExistingPaymentMethod" -> {"getGroupStripeAccount"}
    [] s = "createCustomer" -> {"getGroupStripeAccount", "getExistingPaymentMethod"}
    [] s = "createPaymentMethod" -> {"createCustomer", "getExistingPaymentMethod"}
    [] s = "createCharge" -> {"getGroupStripeAccount", "createPaymentMethod"}
    [] s = "createDonation" -> {"createCharge"}
    [] s = "createTransaction" -> {"createDonation"}
    [] s = "sendThankYouEmail" -> {"createDonation"}
    [] s = "addUserToGroup" -> {"createPaymentMethod"}

\* The dependency lists of post's async.auto graph.
PostDeps(s) ==
  CASE s = "getGroupStripeAccount" -> {}
    [] s = "getExistingPaymentMethod" -> {"getGroupStripeAccount"}
    [] s = "createCustomer" -> {"getGroupStripeAccount", "getExistingPaymentMethod"}
    [] s = "createPaymentMethod" -> {"createCustomer", "getExistingPaymentMethod"}
    [] s = "createCharge" -> {"getGroupStripeAccount", "createPaymentMethod"}
    [] s = "createDonation" -> {"createCharge"}
    [] s = "createTransaction" -> {"createDonation"}
    [] s = "sendThankYouEmail" -> {"createDonation"}
    [] s = "addUserToGroup" -> {"createTransaction"}

\* PaypalDeps with createBillingAgreement declared on createPlan instead of
\* activatePlan
PaypalDeps_AgreementBeforeActivation(s) ==
  CASE s = "getPaypalConfig" -> {}
    [] s = "createTransaction" -> {"getPaypalConfig"}
    [] s = "createPlan" -> {"createTransaction"}
    [] s = "activatePlan" -> {"createPlan"}
    [] s = "createBillingAgreement" -> {"createPlan"}
    [] s = "updateSubscription" -> {"createBillingAgreement"}

\* The dependency lists of paypalDonation's async.auto graph.
PaypalDeps(s) ==
  CASE s = "getPaypalConfig" -> {}
    [] s = "createTransaction" -> {"getPaypalConfig"}
    [] s = "createPlan" -> {"createTransaction"}
    [] s = "activatePlan" -> {"createPlan"}
    [] s = "createBillingAgreement" -> {"activatePlan"}
    [] s = "updateSubscription" -> {"createBillingAgreement"}

\* CallbackDeps with updateTransaction declared on executeBillingAgreement
\* instead of addUserToGroup
CallbackDeps_RestoreAfterExecute(s) ==
  CASE s = "getPaypalConfig" -> {}
    [] s = "executeBillingAgreement" -> {"getPaypalConfig"}
    [] s = "activateSubscription" -> {"executeBillingAgreement"}
    [] s = "getOrCreateUser" -> {"activateSubscription"}
    [] s = "addUserToGroup" -> {"getOrCreateUser"}
    [] s = "updateTransaction" -> {"executeBillingAgreement"}

\* The dependency lists of paypalCallback's async.auto graph.
CallbackDeps(s) ==
  CASE s = "getPaypalConfig" -> {}
    [] s = "executeBillingAgreement" -> {"getPaypalConfig"}
    [] s = "activateSubscription" -> {"executeBillingAgreement"}
    [] s = "getOrCreateUser" -> {"activateSubscription"}
    [] s = "addUserToGroup" -> {"getOrCreateUser"}
    [] s = "updateTransaction" -> {"addUserToGroup"}

Deps(kind, s) ==
  CASE kind = "post" -> PostDeps(s)
    [] kind = "paypal" -> PaypalDeps(s)
    [] kind = "paypalCallback" -> CallbackDeps(s)

(***************************************************************************)
(* An invocation.  task and res have an entry per step of the invocation's  *)
(* graph.  task[s] is "idle" (not started), the name of the call   *)
(* the step is waiting for (running), "done" (its callback was called      *)
(* without error), "failed" (its callback was called with an error),      *)
(* "stalled" (its call returned but the step never calls back) or "threw". *)
(* nextCalls counts the calls of next(e), sent the success responses and   *)
(* unhandled the rejected promises nothing handles.                        *)
(***************************************************************************)
NoInv ==
  [kind |-> "none", interval |-> "", stripeToken |-> "", hasAmount |-> FALSE,
   amount |-> 0, currency |-> "", token |-> "", tx |-> 0, email |-> "",
   task |-> [s \in {} |-> "idle"], res |-> [s \in {} |-> 0],
   err |-> "", nextCalls |-> 0, sent |-> 0, unhandled |-> 0]

\* an invocation of a workflow before any of its steps was started
Fresh(kind) ==
  [NoInv EXCEPT !.kind = kind, !.task = [s \in StepsOf(kind) |-> "idle"],
                !.res = [s \in StepsOf(kind) |-> 0]]

\* an invocation of post or paypalDonation with its req.required.payment
Request(kind, payment) ==
  [Fresh(kind) EXCEPT !.interval = payment.interval,
                      !.stripeToken = payment.stripeToken,
                      !.hasAmount = payment.hasAmount,
                      !.amount = payment.amount, !.currency = payment.currency]

\* var isSubscription = _.contains(['month', 'year'], interval)
isSubscription(r) == r.interval \in {"month", "year"}

\* !payment.amount: undefined and 0 are falsy
AmountMissing(r) == ~r.hasAmount \/ r.amount = 0

\* payment.amount * 100
amountInteger(r) == r.amount * 100

\* payment.currency || group.currency
currencyOf(r) == IF r.currency # "" THEN r.currency ELSE group.currency

\* postValidation without the interval check
postValidation_NoIntervalCheck(r) ==
  IF r.stripeToken = "" THEN "Stripe Token missing."
  ELSE IF AmountMissing(r) THEN "Payment Amount missing."
  ELSE ""

\* post's checks before async.auto: the error passed to next, "" when none
postValidation(r) ==
  IF r.interval # "" /\ ~isSubscription(r) THEN "Interval should be month or year."
  ELSE IF r.stripeToken = "" THEN "Stripe Token missing."
  ELSE IF AmountMissing(r) THEN "Payment Amount missing."
  ELSE ""

\* paypalDonation's checks before async.auto
paypalValidation(r) ==
  IF ~isSubscription(r) THEN "Interval should be month or year."
  ELSE IF AmountMissing(r) THEN "Payment Amount missing."
  ELSE ""

\* paypalCallback's check before async.auto
callbackValidation(r) ==
  IF r.token = "" THEN "Token to execute agreement is missing" ELSE ""

(***************************************************************************)
(* The task graph executor (async.auto).                                   *)
(***************************************************************************)
HasError(r) == \E s \in StepsOf(r.kind) : r.task[s] = "failed"

\* a step is launched once all its dependencies have results
Ready(r, s) ==
  /\ r.task[s] = "idle"
  /\ ~HasError(r)
  /\ \A d \in Deps(r.kind, s) : r.task[d] = "done"

\* the step is waiting for call c
Pend(r, s, c) == [r EXCEPT !.task[s] = c]

\* the step called cb(null, v)
Result(r, s, v) == [r EXCEPT !.task[s] = "done", !.res[s] = v]

\* the step called cb(e): the completion handler gets the first error, once
Fail(r, s, e) ==
  [r EXCEPT !.task[s] = "failed",
            !.err = IF HasError(r) THEN @ ELSE e,
            !.nextCalls = IF HasError(r) THEN @ ELSE @ + 1]

\* createCustomer without the look at results.getExistingPaymentMethod
createCustomer_AlwaysCreates(r) == Pend(r, "createCustomer", "stripe.customers.create")

\* post/createCustomer
createCustomer(r) ==
  IF r.res["getExistingPaymentMethod"] # 0
  THEN Result(r, "createCustomer", r.res["getExistingPaymentMethod"])
  ELSE Pend(r, "createCustomer", "stripe.customers.create")

\* post/createPaymentMethod
createPaymentMethod(r) ==
  IF r.res["getExistingPaymentMethod"] # 0
  THEN Result(r, "createPaymentMethod", r.res["getExistingPaymentMethod"])
  ELSE Pend(r, "createPaymentMethod", "PaymentMethod.create")

\* post/createCharge: the first provider call of the step
createCharge(r) ==
  IF isSubscription(r)
  THEN Pend(r, "createCharge", "stripe.plans.retrieve")
  ELSE Pend(r, "createCharge", "stripe.charges.create")

\* post/createTransaction
createTransaction(r) ==
  IF ~isSubscription(r)
  THEN Pend(r, "createTransaction", "transactions._create")
  ELSE Result(r, "createTransaction", 0)

\* post/sendThankYouEmail: `donation` is not defined in the step's scope, so
\* building `data` throws before emailLib.send and before cb
sendThankYouEmail(r) == [r EXCEPT !.task["sendThankYouEmail"] = "threw"]

\* the synchronous part of a step of post
PostBegin(r, s) ==
  CASE s = "getGroupStripeAccount" -> Pend(r, s, "group.getStripeAccount")
    [] s = "getExistingPaymentMethod" -> Pend(r, s, "PaymentMethod.findOne")
    [] s = "createCustomer" -> createCustomer(r)
    [] s = "createPaymentMethod" -> createPaymentMethod(r)
    [] s = "createCharge" -> createCharge(r)
    [] s = "createDonation" -> Pend(r, s, "Donation.create")
    [] s = "createTransaction" -> createTransaction(r)
    [] s = "sendThankYouEmail" -> sendThankYouEmail(r)
    [] s = "addUserToGroup" -> Pend(r, s, "UserGroup.findOne")

\* the synchronous part of a step of paypalDonation
PaypalBegin(r, s) ==
  CASE s = "getPaypalConfig" -> Pend(r, s, "group.getConnectedAccount")
    [] s = "createTransaction" -> Pend(r, s, "transactions._create")
    [] s = "createPlan" -> Pend(r, s, "paypal.billingPlan.create")
    [] s = "activatePlan" -> Pend(r, s, "paypal.billingPlan.activate")
    [] s = "createBillingAgreement" -> Pend(r, s, "paypal.billingAgreement.create")
    [] s = "updateSubscription" -> Pend(r, s, "transaction.getSubscription")

\* the synchronous part of a step of paypalCallback
CallbackBegin(r, s) ==
  CASE s = "getPaypalConfig" -> Pend(r, s, "group.getConnectedAccount")
    [] s = "executeBillingAgreement" -> Pend(r, s, "paypal.billingAgreement.execute")
    [] s = "activateSubscription" -> Pend(r, s, "transaction.getSubscription")
    [] s = "getOrCreateUser" -> Pend(r, s, "User.findOne")
    [] s = "addUserToGroup" -> Pend(r, s, "UserGroup.findOne")
    [] s = "updateTransaction" -> Pend(r, s, "transaction.restore")

Begin(r, s) ==
  CASE r.kind = "post" -> PostBegin(r, s)
    [] r.kind = "paypal" -> PaypalBegin(r, s)
    [] r.kind = "paypalCallback" -> CallbackBegin(r, s)

\* launch every ready step; when every step has a result, the completion
\* handler is called without error and sends the success response
RECURSIVE Settle(_)
Settle(r) ==
  IF \E s \in StepsOf(r.kind) : Ready(r, s)
  THEN Settle(Begin(r, CHOOSE s \in StepsOf(r.kind) : Ready(r, s)))
  ELSE IF \A s \in StepsOf(r.kind) : r.task[s] = "done"
       THEN [r EXCEPT !.sent = @ + 1]
       ELSE r

\* a step's call returned and the step called cb(null, v)
Done(r, s, v) == Settle(Result(r, s, v))

\* next(new errors.BadRequest(e)) before the graph starts
Reject(r, e) == [r EXCEPT !.err = e, !.nextCalls = @ + 1]

Waiting(i, s, c) == inv[i].kind # "none" /\ s \in StepsOf(inv[i].kind) /\ inv[i].task[s] = c

Set(i, r) == inv' = [inv EXCEPT ![i] = r]

\* invocations are numbered in the order they arrive
Arrives(i) ==
  /\ inv[i].kind = "none"
  /\ IF i = 1 THEN TRUE ELSE inv[i - 1].kind # "none"

\* the row with the given id
Row(table, id) == CHOOSE row \in table : row.id = id

\* the table after the row with row.id was saved
Save(table, row) == {IF old.id = row.id THEN row ELSE old : old \in table}

(***************************************************************************)
(* The card workflow.                                                      *)
(***************************************************************************)
Post(i) ==
  /\ Arrives(i)
  /\ \E payment \in PostPayments :
       LET r == Request("post", payment)
       IN  Set(i, IF postValidation(r) # "" THEN Reject(r, postValidation(r))
                  ELSE Settle(r))
  /\ UNCHANGED tables

\* req.group.getStripeAccount calls back
GetStripeAccount(i) ==
  LET s == "getGroupStripeAccount" r == inv[i] IN
  /\ Waiting(i, s, "group.getStripeAccount")
  /\ \E outcome \in {"ok", "error", "no Stripe account", "live key"} :
       Set(i, IF outcome = "ok" THEN Done(r, s, 1) ELSE Fail(r, s, outcome))
  /\ UNCHANGED tables

\* what models.PaymentMethod.findOne({token, service: 'stripe'}) may find: a
\* matching row (the query has no order), null if there is none
FindPaymentMethod(token) ==
  LET m == {row.id : row \in {pm \in paymentMethods :
                                 pm.token = token /\ pm.service = "stripe"}}
  IN  IF m = {} THEN {0} ELSE m

PaymentMethodFindOne(i) ==
  LET s == "getExistingPaymentMethod" r == inv[i] IN
  /\ Waiting(i, s, "PaymentMethod.findOne")
  /\ \/ \E pm \in FindPaymentMethod(r.stripeToken) : Set(i, Done(r, s, pm))
     \/ Set(i, Fail(r, s, "storage error"))
  /\ UNCHANGED tables

StripeCustomersCreate(i) ==
  LET s == "createCustomer" r == inv[i] IN
  /\ Waiting(i, s, "stripe.customers.create")
  /\ \/ /\ stripeCustomers' = stripeCustomers \cup {[id |-> i, source |-> r.stripeToken]}
        /\ Set(i, Done(r, s, i))
     \/ /\ Set(i, Fail(r, s, "provider error"))
        /\ UNCHANGED stripeCustomers
  /\ UNCHANGED <<paymentMethods, stripePlans, stripeCharges, stripeSubscriptions,
                 donations, transactions, subscriptions, users, userGroups,
                 billingPlans, billingAgreements>>

PaymentMethodCreate(i) ==
  LET s == "createPaymentMethod" r == inv[i] IN
  /\ Waiting(i, s, "PaymentMethod.create")
  /\ \/ /\ paymentMethods' = paymentMethods \cup
             {[id |-> i, token |-> r.stripeToken, serviceId |-> r.res["createCustomer"],
               service |-> "stripe"]}
        /\ Set(i, Done(r, s, i))
     \/ /\ Set(i, Fail(r, s, "storage error"))
        /\ UNCHANGED paymentMethods
  /\ UNCHANGED <<stripeCustomers, stripePlans, stripeCharges, stripeSubscriptions,
                 donations, transactions, subscriptions, users, userGroups,
                 billingPlans, billingAgreements>>

\* utils.planId({currency, interval, amount})
planId(currency, interval, amount) == <<currency, interval, amount>>

\* PlanOf with the plan id derived from the PaymentMethod as well
PlanOf_PaymentMethodInId(r) ==
  [id |-> <<currencyOf(r), r.interval, amountInteger(r), r.res["createPaymentMethod"]>>,
   interval |-> r.interval, amount |-> amountInteger(r), currency |-> currencyOf(r)]

\* the plan createCharge hands to getOrCreatePlan
PlanOf(r) ==
  [id |-> planId(currencyOf(r), r.interval, amountInteger(r)),
   interval |-> r.interval, amount |-> amountInteger(r), currency |-> currencyOf(r)]

\* getOrCreatePlan creating the plan on every retrieval error
getOrCreatePlan_CreatesOnAnyError(r, outcome) ==
  IF outcome = "found"
  THEN Pend(r, "createCharge", "stripe.customers.createSubscription")
  ELSE Pend(r, "createCharge", "stripe.plans.create")

\* getOrCreatePlan's callback of stripe.plans.retrieve
getOrCreatePlan(r, outcome) ==
  IF outcome = "No such plan"
  THEN Pend(r, "createCharge", "stripe.plans.create")
  ELSE IF outcome = "found"
       THEN Pend(r, "createCharge", "stripe.customers.createSubscription")
       ELSE Fail(r, "createCharge", outcome)

PlanExists(id) == \E plan \in stripePlans : plan.id = id

StripePlansRetrieve(i) ==
  LET s == "createCharge" r == inv[i] IN
  /\ Waiting(i, s, "stripe.plans.retrieve")
  /\ \/ Set(i, getOrCreatePlan(r, IF PlanExists(PlanOf(r).id) THEN "found"
                                   ELSE "No such plan"))
     \/ Set(i, getOrCreatePlan(r, "provider error"))
  /\ UNCHANGED tables

StripePlansCreate(i) ==
  LET s == "createCharge" r == inv[i] IN
  /\ Waiting(i, s, "stripe.plans.create")
  /\ \/ /\ ~PlanExists(PlanOf(r).id)
        /\ stripePlans' = stripePlans \cup {PlanOf(r)}
        /\ Set(i, Pend(r, s, "stripe.customers.createSubscription"))
     \/ /\ Set(i, Fail(r, s, IF PlanExists(PlanOf(r).id) THEN "Plan already exists"
                              ELSE "provider error"))
        /\ UNCHANGED stripePlans
  /\ UNCHANGED <<paymentMethods, stripeCustomers, stripeCharges, stripeSubscriptions,
                 donations, transactions, subscriptions, users, userGroups,
                 billingPlans, billingAgreements>>

\* paymentMethod.serviceId of results.createPaymentMethod
ServiceId(r) == Row(paymentMethods, r.res["createPaymentMethod"]).serviceId

StripeCreateSubscription(i) ==
  LET s == "createCharge" r == inv[i] IN
  /\ Waiting(i, s, "stripe.customers.createSubscription")
  /\ \/ /\ stripeSubscriptions' = stripeSubscriptions \cup
             {[id |-> i, customer |-> ServiceId(r), plan |-> PlanOf(r).id]}
        /\ Set(i, Done(r, s, i))
     \/ /\ Set(i, Fail(r, s, "provider error"))
        /\ UNCHANGED stripeSubscriptions
  /\ UNCHANGED <<paymentMethods, stripeCustomers, stripePlans, stripeCharges,
                 donations, transactions, subscriptions, users, userGroups,
                 billingPlans, billingAgreements>>

\* stripe.charges.create calls back; the request names no application fee, so
\* the charge carries none (application_fee 0)
StripeChargesCreate(i) ==
  LET s == "createCharge" r == inv[i] IN
  /\ Waiting(i, s, "stripe.charges.create")
  /\ \/ /\ stripeCharges' = stripeCharges \cup
             {[id |-> i, amount |-> amountInteger(r), currency |-> currencyOf(r),
               customer |-> ServiceId(r), application_fee |-> 0]}
        /\ Set(i, Done(r, s, i))
     \/ /\ Set(i, Fail(r, s, "provider error"))
        /\ UNCHANGED stripeCharges
  /\ UNCHANGED <<paymentMethods, stripeCustomers, stripePlans, stripeSubscriptions,
                 donations, transactions, subscriptions, users, userGroups,
                 billingPlans, billingAgreements>>

\* post/createDonation: models.Donation.create(donation) is issued and the step
\* ends without ever calling cb, whether the insert succeeds or is rejected
createDonation(r, created) ==
  [r EXCEPT !.task["createDonation"] = "stalled",
            !.unhandled = IF created THEN @ ELSE @ + 1]

DonationCreate(i) ==
  LET s == "createDonation" r == inv[i] IN
  /\ Waiting(i, s, "Donation.create")
  /\ \/ /\ donations' = donations \cup
             {[id |-> i, amount |-> amountInteger(r), currency |-> currencyOf(r),
               subscription |-> isSubscription(r)]}
        /\ Set(i, createDonation(r, TRUE))
     \/ /\ Set(i, createDonation(r, FALSE))
        /\ UNCHANGED donations
  /\ UNCHANGED <<paymentMethods, stripeCustomers, stripePlans, stripeCharges,
                 stripeSubscriptions, transactions, subscriptions, users, userGroups,
                 billingPlans, billingAgreements>>

(***************************************************************************)
(* Calls shared by the workflows.                                          *)
(***************************************************************************)
\* the user a membership step is about: req.user in post, results.getOrCreateUser
\* in paypalCallback
MemberOf(r) == IF r.kind = "post" THEN reqUser.id ELSE r.res["getOrCreateUser"]

IsMember(uid) ==
  \E userGroup \in userGroups :
    /\ userGroup.UserId = uid
    /\ userGroup.GroupId = group.id
    /\ userGroup.role = BACKER

\* addUserToGroup inserting whatever the look-up found
addUserToGroup_AlwaysInserts(r, userGroup) ==
  Pend(r, "addUserToGroup", "group.addUserWithRole")

\* addUserToGroup's callback of models.UserGroup.findOne
addUserToGroup(r, userGroup) ==
  IF ~userGroup
  THEN Pend(r, "addUserToGroup", "group.addUserWithRole")
  ELSE Done(r, "addUserToGroup", 0)

UserGroupFindOne(i) ==
  LET s == "addUserToGroup" r == inv[i] IN
  /\ Waiting(i, s, "UserGroup.findOne")
  /\ \/ Set(i, addUserToGroup(r, IsMember(MemberOf(r))))
     \/ Set(i, Fail(r, s, "storage error"))
  /\ UNCHANGED tables

AddUserWithRole(i) ==
  LET s == "addUserToGroup" r == inv[i] IN
  /\ Waiting(i, s, "group.addUserWithRole")
  /\ \/ /\ userGroups' = userGroups \cup
             {[id |-> i, UserId |-> MemberOf(r), GroupId |-> group.id, role |-> BACKER]}
        /\ Set(i, Done(r, s, 0))
     \/ /\ Set(i, Fail(r, s, "storage error"))
        /\ UNCHANGED userGroups
  /\ UNCHANGED <<paymentMethods, stripeCustomers, stripePlans, stripeCharges,
                 stripeSubscriptions, donations, transactions, subscriptions, users,
                 billingPlans, billingAgreements>>

\* post/createTransaction: charge.application_fee ||
\* constants.OC_FEE_PERCENT * amountInteger / 100
applicationFee(r) ==
  LET charge == Row(stripeCharges, r.res["createCharge"])
  IN  IF charge.application_fee # 0 THEN charge.application_fee
      ELSE (OC_FEE_PERCENT * amountInteger(r)) \div 100

\* NewTransaction with paypalDonation's transaction created without deletedAt
NewTransaction_Visible(r, i) ==
  IF r.kind = "post"
  THEN [id |-> i, type |-> "donation", amount |-> amountInteger(r),
        currency |-> currencyOf(r), platformFee |-> applicationFee(r),
        deleted |-> FALSE, UserId |-> 0]
  ELSE [id |-> i, type |-> "payment", amount |-> r.amount,
        currency |-> currencyOf(r), platformFee |-> 0,
        deleted |-> FALSE, UserId |-> 0]

\* transactions._create: post passes {paymentMethod, transaction}, paypalDonation
\* passes {transaction (deletedAt set), subscription, group}
NewTransaction(r, i) ==
  IF r.kind = "post"
  THEN [id |-> i, type |-> "donation", amount |-> amountInteger(r),
        currency |-> currencyOf(r), platformFee |-> applicationFee(r),
        deleted |-> FALSE, UserId |-> 0]
  ELSE [id |-> i, type |-> "payment", amount |-> r.amount,
        currency |-> currencyOf(r), platformFee |-> 0,
        deleted |-> TRUE, UserId |-> 0]

TransactionsCreate(i) ==
  LET s == "createTransaction" r == inv[i] IN
  /\ Waiting(i, s, "transactions._create")
  /\ \/ /\ transactions' = transactions \cup {NewTransaction(r, i)}
        /\ subscriptions' =
             IF r.kind = "paypal"
             THEN subscriptions \cup {[id |-> i, tx |-> i, isActive |-> FALSE,
                                       data |-> 0, billingAgreementId |-> 0]}
             ELSE subscriptions
        /\ Set(i, Done(r, s, i))
     \/ /\ Set(i, Fail(r, s, "storage error"))
        /\ UNCHANGED <<transactions, subscriptions>>
  /\ UNCHANGED <<paymentMethods, stripeCustomers, stripePlans, stripeCharges,
                 stripeSubscriptions, donations, users, userGroups,
                 billingPlans, billingAgreements>>

\* group.getConnectedAccount resolves or rejects
GetConnectedAccount(i) ==
  LET s == "getPaypalConfig" r == inv[i] IN
  /\ Waiting(i, s, "group.getConnectedAccount")
  /\ \/ Set(i, Done(r, s, 1))
     \/ Set(i, Fail(r, s, "storage error"))
  /\ UNCHANGED tables

\* the transaction a wallet invocation works on: results.createTransaction in
\* paypalDonation, req.paranoidtransaction in paypalCallback
TransactionOf(r) == IF r.kind = "paypal" THEN r.res["createTransaction"] ELSE r.tx

\* the Subscription row of a transaction
SubscriptionOf(tx) == CHOOSE subscription \in subscriptions : subscription.tx = tx

\* transaction.getSubscription() resolves or rejects
GetSubscription(i) ==
  \E s \in {"updateSubscription", "activateSubscription"} :
    LET r == inv[i] IN
    /\ Waiting(i, s, "transaction.getSubscription")
    /\ \/ Set(i, Pend(r, s, "subscription.save"))
       \/ Set(i, Fail(r, s, "storage error"))
    /\ UNCHANGED tables

\* the Subscription as the step changed it before subscription.save()
SavedSubscription(r, sub) ==
  IF r.kind = "paypal"
  THEN [sub EXCEPT !.data = r.res["createBillingAgreement"]]
  ELSE [sub EXCEPT !.billingAgreementId = r.res["executeBillingAgreement"],
                   !.isActive = TRUE]

SubscriptionSave(i) ==
  \E s \in {"updateSubscription", "activateSubscription"} :
    LET r == inv[i] IN
    /\ Waiting(i, s, "subscription.save")
    /\ \/ /\ subscriptions' =
               Save(subscriptions, SavedSubscription(r, SubscriptionOf(TransactionOf(r))))
          /\ Set(i, Done(r, s, 0))
       \/ /\ Set(i, Fail(r, s, "storage error"))
          /\ UNCHANGED subscriptions
    /\ UNCHANGED <<paymentMethods, stripeCustomers, stripePlans, stripeCharges,
                   stripeSubscriptions, donations, transactions, users, userGroups,
                   billingPlans, billingAgreements>>

(***************************************************************************)
(* The wallet initiation workflow.                                         *)
(***************************************************************************)
PaypalDonation(i) ==
  /\ Arrives(i)
  /\ \E payment \in PaypalPayments :
       LET r == Request("paypal", payment)
       IN  Set(i, IF paypalValidation(r) # "" THEN Reject(r, paypalValidation(r))
                  ELSE Settle(r))
  /\ UNCHANGED tables

BillingPlanCreate(i) ==
  LET s == "createPlan" r == inv[i] IN
  /\ Waiting(i, s, "paypal.billingPlan.create")
  /\ \/ /\ billingPlans' = billingPlans \cup
             {[id |-> i, state |-> "CREATED", tx |-> r.res["createTransaction"]]}
        /\ Set(i, Done(r, s, i))
     \/ /\ Set(i, Fail(r, s, "provider error"))
        /\ UNCHANGED billingPlans
  /\ UNCHANGED <<paymentMethods, stripeCustomers, stripePlans, stripeCharges,
                 stripeSubscriptions, donations, transactions, subscriptions, users,
                 userGroups, billingAgreements>>

BillingPlanActivate(i) ==
  LET s == "activatePlan" r == inv[i] IN
  /\ Waiting(i, s, "paypal.billingPlan.activate")
  /\ \/ /\ billingPlans' = Save(billingPlans,
             [Row(billingPlans, r.res["createPlan"]) EXCEPT !.state = "ACTIVE"])
        /\ Set(i, Done(r, s, 0))
     \/ /\ Set(i, Fail(r, s, "provider error"))
        /\ UNCHANGED billingPlans
  /\ UNCHANGED <<paymentMethods, stripeCustomers, stripePlans, stripeCharges,
                 stripeSubscriptions, donations, transactions, subscriptions, users,
                 userGroups, billingAgreements>>

BillingAgreementCreate(i) ==
  LET s == "createBillingAgreement" r == inv[i] IN
  /\ Waiting(i, s, "paypal.billingAgreement.create")
  /\ \/ /\ billingAgreements' = billingAgreements \cup
             {[id |-> i, plan |-> r.res["createPlan"], tx |-> r.res["createTransaction"],
               planState |-> Row(billingPlans, r.res["createPlan"]).state,
               executed |-> FALSE]}
        /\ Set(i, Done(r, s, i))
     \/ /\ Set(i, Fail(r, s, "provider error"))
        /\ UNCHANGED billingAgreements
  /\ UNCHANGED <<paymentMethods, stripeCustomers, stripePlans, stripeCharges,
                 stripeSubscriptions, donations, transactions, subscriptions, users,
                 userGroups, billingPlans>>

(***************************************************************************)
(* The wallet callback workflow.                                           *)
(***************************************************************************)
\* donations initiated by earlier runs of paypalDonation, whose approval links
\* the payer holds when the behaviours of CallbackSpec start
InitiatedDonations == {MaxInv + 1, MaxInv + 2}

\* the approval links of the donation were returned by paypalDonation
LinksReturned(id) == IF id \in Invocations THEN inv[id].sent = 1 ELSE TRUE

\* the transactions the callback route is called for: the payer is sent to the
\* callback URL from the approval links, which paypalDonation's response carries
WalletTransactions ==
  {transaction.id : transaction \in {t \in transactions :
                                       t.type = "payment" /\ LinksReturned(t.id)}}

\* the route's look-up of the transaction the callback URL names, without the
\* not-found answer
paranoidtransaction_NoCheck(tx) == ""

\* the route's look-up of the transaction the callback URL names, which sets
\* req.paranoidtransaction: the error passed to next when there is no such
\* transaction, "" when it was found
paranoidtransaction(tx) ==
  IF \E t \in transactions : t.id = tx THEN "" ELSE "Not Found"

\* the callback URL names a transaction of WalletTransactions or (0) none that exists
PaypalCallback(i) ==
  /\ Arrives(i)
  /\ \E token \in CallbackTokens, tx \in WalletTransactions \cup {0} :
       LET r == [Fresh("paypalCallback") EXCEPT !.token = token, !.tx = tx]
       IN  Set(i, IF paranoidtransaction(tx) # "" THEN Reject(r, paranoidtransaction(tx))
                  ELSE IF callbackValidation(r) # ""
                       THEN Reject(r, callbackValidation(r))
                       ELSE Settle(r))
  /\ UNCHANGED tables

\* the agreement the payer approved for a transaction, 0 if there is none
AgreementOf(tx) ==
  LET m == {agreement \in billingAgreements : agreement.tx = tx}
  IN  IF m = {} THEN 0 ELSE (CHOOSE agreement \in m : TRUE).id

BillingAgreementExecute(i) ==
  LET s == "executeBillingAgreement" r == inv[i] a == AgreementOf(r.tx) IN
  /\ Waiting(i, s, "paypal.billingAgreement.execute")
  /\ \/ /\ a # 0
        /\ \E email \in PayerEmails :
             Set(i, Done([r EXCEPT !.email = email], s, a))
        /\ billingAgreements' = Save(billingAgreements,
             [Row(billingAgreements, a) EXCEPT !.executed = TRUE])
     \/ /\ Set(i, Fail(r, s, "provider error"))
        /\ UNCHANGED billingAgreements
  /\ UNCHANGED <<paymentMethods, stripeCustomers, stripePlans, stripeCharges,
                 stripeSubscriptions, donations, transactions, subscriptions, users,
                 userGroups, billingPlans>>

\* what models.User.findOne({email}) may find: a matching row, null if none
FindUser(email) ==
  LET m == {user.id : user \in {u \in users : u.email = email}}
  IN  IF m = {} THEN {0} ELSE m

\* getOrCreateUser's callback of models.User.findOne
getOrCreateUser(r, user) ==
  IF user # 0
  THEN Done(r, "getOrCreateUser", user)
  ELSE Pend(r, "getOrCreateUser", "users._create")

UserFindOne(i) ==
  LET s == "getOrCreateUser" r == inv[i] IN
  /\ Waiting(i, s, "User.findOne")
  /\ \/ \E user \in FindUser(r.email) : Set(i, getOrCreateUser(r, user))
     \/ Set(i, Fail(r, s, "storage error"))
  /\ UNCHANGED tables

UsersCreate(i) ==
  LET s == "getOrCreateUser" r == inv[i] IN
  /\ Waiting(i, s, "users._create")
  /\ \/ /\ users' = users \cup {[id |-> i, email |-> r.email]}
        /\ Set(i, Done(r, s, i))
     \/ /\ Set(i, Fail(r, s, "storage error"))
        /\ UNCHANGED users
  /\ UNCHANGED <<paymentMethods, stripeCustomers, stripePlans, stripeCharges,
                 stripeSubscriptions, donations, transactions, subscriptions,
                 userGroups, billingPlans, billingAgreements>>

\* transaction.restore() resolves (deletedAt is cleared) or rejects
TransactionRestore(i) ==
  LET s == "updateTransaction" r == inv[i] IN
  /\ Waiting(i, s, "transaction.restore")
  /\ \/ /\ transactions' = Save(transactions,
             [Row(transactions, r.tx) EXCEPT !.deleted = FALSE])
        /\ Set(i, Pend(r, s, "transaction.setUser"))
     \/ /\ Set(i, Fail(r, s, "storage error"))
        /\ UNCHANGED transactions
  /\ UNCHANGED <<paymentMethods, stripeCustomers, stripePlans, stripeCharges,
                 stripeSubscriptions, donations, subscriptions, users, userGroups,
                 billingPlans, billingAgreements>>

\* transaction.setUser(results.getOrCreateUser) resolves or rejects
TransactionSetUser(i) ==
  LET s == "updateTransaction" r == inv[i] IN
  /\ Waiting(i, s, "transaction.setUser")
  /\ \/ /\ transactions' = Save(transactions,
             [Row(transactions, r.tx) EXCEPT !.UserId = r.res["getOrCreateUser"]])
        /\ Set(i, Done(r, s, 0))
     \/ /\ Set(i, Fail(r, s, "storage error"))
        /\ UNCHANGED transactions
  /\ UNCHANGED <<paymentMethods, stripeCustomers, stripePlans, stripeCharges,
                 stripeSubscriptions, donations, subscriptions, users, userGroups,
                 billingPlans, billingAgreements>>

Init ==
  /\ inv = [i \in Invocations |-> NoInv]
  /\ paymentMethods = {}
  /\ stripeCustomers = {}
  /\ stripePlans = {}
  /\ stripeCharges = {}
  /\ stripeSubscriptions = {}
  /\ donations = {}
  /\ transactions = {}
  /\ subscriptions = {}
  /\ users = {reqUser}
  /\ userGroups = {}
  /\ billingPlans = {}
  /\ billingAgreements = {}

Next ==
  \E i \in Invocations :
    \/ Post(i)
    \/ GetStripeAccount(i)
    \/ PaymentMethodFindOne(i)
    \/ StripeCustomersCreate(i)
    \/ PaymentMethodCreate(i)
    \/ StripePlansRetrieve(i)
    \/ StripePlansCreate(i)
    \/ StripeCreateSubscription(i)
    \/ StripeChargesCreate(i)
    \/ DonationCreate(i)
    \/ TransactionsCreate(i)
    \/ UserGroupFindOne(i)
    \/ AddUserWithRole(i)
    \/ PaypalDonation(i)
    \/ GetConnectedAccount(i)
    \/ BillingPlanCreate(i)
    \/ BillingPlanActivate(i)
    \/ BillingAgreementCreate(i)
    \/ GetSubscription(i)
    \/ SubscriptionSave(i)
    \/ PaypalCallback(i)
    \/ BillingAgreementExecute(i)
    \/ UserFindOne(i)
    \/ UsersCreate(i)
    \/ TransactionRestore(i)
    \/ TransactionSetUser(i)

Spec == Init /\ [][Next]_vars

(***************************************************************************)
(* Callbacks of the wallet provider for donations that paypalDonation has  *)
(* initiated before: the tables hold what a successful run of              *)
(* paypalDonation for WalletPayment leaves, once per initiated donation.   *)
(***************************************************************************)
CallbackInit ==
  /\ inv = [i \in Invocations |-> NoInv]
  /\ paymentMethods = {}
  /\ stripeCustomers = {}
  /\ stripePlans = {}
  /\ stripeCharges = {}
  /\ stripeSubscriptions = {}
  /\ donations = {}
  /\ transactions = {NewTransaction(Request("paypal", WalletPayment), d) :
                       d \in InitiatedDonations}
  /\ subscriptions = {[id |-> d, tx |-> d, isActive |-> FALSE, data |-> d,
                        billingAgreementId |-> 0] : d \in InitiatedDonations}
  /\ users = {reqUser}
  /\ userGroups = {}
  /\ billingPlans = {[id |-> d, state |-> "ACTIVE", tx |-> d] : d \in InitiatedDonations}
  /\ billingAgreements = {[id |-> d, plan |-> d, tx |-> d, planState |-> "ACTIVE",
                            executed |-> FALSE] : d \in InitiatedDonations}

CallbackNext ==
  \E i \in Invocations :
    \/ PaypalCallback(i)
    \/ GetConnectedAccount(i)
    \/ BillingAgreementExecute(i)
    \/ GetSubscription(i)
    \/ SubscriptionSave(i)
    \/ UserFindOne(i)
    \/ UsersCreate(i)
    \/ UserGroupFindOne(i)
    \/ AddUserWithRole(i)
    \/ TransactionRestore(i)
    \/ TransactionSetUser(i)

CallbackSpec == CallbackInit /\ [][CallbackNext]_vars

(***************************************************************************)
(* Properties.                                                             *)
(***************************************************************************)
\* the rows an invocation created
RowsBy(table, i) == {row \in table : row.id = i}

\* no call of the invocation is outstanding
Quiescent(r) ==
  \A s \in StepsOf(r.kind) : r.task[s] \in {"idle", "done", "failed", "stalled", "threw"}

\* no call of the invocation failed
AllCallsSucceeded(r) == ~HasError(r) /\ r.unhandled = 0

Started(r) == \E s \in StepsOf(r.kind) : r.task[s] # "idle"

\* a request to post with a token, a positive amount and no interval
ValidOneTime(r) ==
  r.kind = "post" /\ r.stripeToken # "" /\ r.hasAmount /\ r.amount > 0 /\ r.interval = ""

\* a request to post with a token, a positive amount and no or a valid interval
ValidPost(r) ==
  /\ r.kind = "post" /\ r.stripeToken # "" /\ r.hasAmount /\ r.amount > 0
  /\ r.interval \in {"", "month", "year"}

\* C1: a valid one-time charge whose calls all succeeded has, once no call of it
\* is outstanding, created exactly one Donation and exactly one Transaction.
C1_OneDonationOneTransaction ==
  \A i \in Invocations :
    (ValidOneTime(inv[i]) /\ AllCallsSucceeded(inv[i]) /\ Quiescent(inv[i]))
      => /\ Cardinality(RowsBy(donations, i)) = 1
         /\ Cardinality(RowsBy(transactions, i)) = 1

\* C2: a valid invocation of post whose calls all succeeded does not come to rest
\* before its completion handler was called exactly once, with success, and with
\* every step started.
C2_CompletesWithSuccess ==
  \A i \in Invocations :
    (ValidPost(inv[i]) /\ AllCallsSucceeded(inv[i]) /\ Quiescent(inv[i]))
      => /\ inv[i].sent = 1
         /\ inv[i].nextCalls = 0
         /\ \A s \in PostSteps : inv[i].task[s] # "idle"

\* C3: in every workflow a failed step (the rejected Donation insert of post
\* included) has been delivered to the completion handler exactly once, and no
\* success response was sent.
C3_FailureDeliveredOnce ==
  \A i \in Invocations :
    (HasError(inv[i]) \/ inv[i].unhandled > 0)
      => inv[i].nextCalls = 1 /\ inv[i].sent = 0

\* once a step of an invocation has failed, its idle steps stay idle
C4_NoLaunchAfterFailure ==
  \A i \in Invocations :
    HasError(inv[i]) =>
      \A s \in StepsOf(inv[i].kind) : inv[i].task[s] = "idle" => inv'[i].task[s] = "idle"

\* a failed createCharge leaves no Donation, Transaction or membership of the
\* invocation and none of the later steps started
C4_NothingAfterFailedCharge ==
  \A i \in Invocations :
    (inv[i].kind = "post" /\ inv[i].task["createCharge"] = "failed")
      => /\ RowsBy(donations, i) = {}
         /\ RowsBy(transactions, i) = {}
         /\ RowsBy(userGroups, i) = {}
         /\ \A s \in {"createDonation", "createTransaction", "sendThankYouEmail",
                      "addUserToGroup"} : inv[i].task[s] = "idle"

\* C4: in every workflow no step is launched after a step failed, and a failed
\* createCharge of post leaves no Donation, Transaction, email or membership.
C4_NoStepAfterFailure ==
  [][C4_NoLaunchAfterFailure]_vars /\ []C4_NothingAfterFailedCharge

\* C4 witness: createCharge of post failed with later steps never started, and
\* a wallet workflow failed with later steps never started.
C4_Witness ==
  \E i, j \in Invocations :
    /\ inv[i].kind = "post" /\ inv[i].task["createCharge"] = "failed"
    /\ inv[i].task["createDonation"] = "idle" /\ inv[i].nextCalls = 1
    /\ inv[j].kind = "paypal" /\ inv[j].task["createPlan"] = "failed"
    /\ inv[j].task["activatePlan"] = "idle" /\ inv[j].nextCalls = 1

InvalidRequest(r) ==
  CASE r.kind = "post" ->
         r.interval \notin {"", "month", "year"} \/ r.stripeToken = "" \/ ~r.hasAmount
    [] r.kind = "paypal" -> r.interval \notin {"month", "year"} \/ ~r.hasAmount
    [] r.kind = "paypalCallback" -> r.token = ""
    [] OTHER -> FALSE

NoRowsBy(i) ==
  /\ RowsBy(paymentMethods, i) = {} /\ RowsBy(stripeCustomers, i) = {}
  /\ RowsBy(stripeCharges, i) = {} /\ RowsBy(stripeSubscriptions, i) = {}
  /\ RowsBy(donations, i) = {} /\ RowsBy(transactions, i) = {}
  /\ RowsBy(userGroups, i) = {} /\ RowsBy(billingPlans, i) = {}
  /\ RowsBy(billingAgreements, i) = {}

\* C6: an invalid request was rejected with an error once, no step of its graph
\* was started (so no provider or storage call was made) and it created no record.
C6_RejectedBeforeGraph ==
  \A i \in Invocations :
    InvalidRequest(inv[i])
      => /\ inv[i].nextCalls = 1 /\ inv[i].sent = 0 /\ inv[i].err # ""
         /\ ~Started(inv[i])
         /\ NoRowsBy(i)

\* C6 witness: interval "week" rejected by post and by paypalDonation.
C6_Witness ==
  \E i, j \in Invocations :
    /\ inv[i].kind = "post" /\ inv[i].interval = "week" /\ inv[i].nextCalls = 1
    /\ inv[i].stripeToken # "" /\ inv[i].hasAmount /\ inv[i].amount > 0
    /\ inv[j].kind = "paypal" /\ inv[j].interval = "week" /\ inv[j].nextCalls = 1

\* C7: post and paypalDonation start their graph only for a positive amount.
C7_GraphOnlyForPositiveAmount ==
  \A i \in Invocations :
    (inv[i].kind \in {"post", "paypal"} /\ Started(inv[i]))
      => inv[i].hasAmount /\ inv[i].amount > 0

\* an invocation whose look-up found a PaymentMethod creates no customer and no
\* row, and charges the customer of the row found, which another request made
C8_ReusesFound ==
  \A i \in Invocations :
    LET r == inv[i]
        pm == r.res["getExistingPaymentMethod"]
    IN  (r.kind = "post" /\ pm # 0)
          => /\ Row(paymentMethods, pm).token = r.stripeToken
             /\ pm # i
             /\ RowsBy(stripeCustomers, i) = {}
             /\ RowsBy(paymentMethods, i) = {}
             /\ r.task["createCustomer"] = "done"
             /\ r.task["createPaymentMethod"] = "done"
             /\ r.res["createPaymentMethod"] = pm
             /\ \A charge \in RowsBy(stripeCharges, i) :
                  charge.customer = Row(paymentMethods, pm).serviceId
             /\ \A subscription \in RowsBy(stripeSubscriptions, i) :
                  subscription.customer = Row(paymentMethods, pm).serviceId

\* a look-up that completes while a row for the token is persisted finds a row
C8_FindsPersisted ==
  \A i \in Invocations :
    (/\ inv[i].kind = "post"
     /\ inv[i].task["getExistingPaymentMethod"] = "PaymentMethod.findOne"
     /\ inv'[i].task["getExistingPaymentMethod"] = "done"
     /\ \E pm \in paymentMethods :
          pm.token = inv[i].stripeToken /\ pm.service = "stripe")
      => inv'[i].res["getExistingPaymentMethod"] # 0

\* C8: a request presenting a token whose PaymentMethod is already persisted
\* skips customer creation, creates no PaymentMethod row and charges the
\* provider customer of the existing row.
C8_SecondRequestReuses == []C8_ReusesFound /\ [][C8_FindsPersisted]_vars

\* C8 witness: an invocation found another's PaymentMethod and its charge went
\* to that row's customer.
C8_Witness ==
  \E i \in Invocations :
    /\ inv[i].kind = "post" /\ inv[i].res["getExistingPaymentMethod"] # 0
    /\ RowsBy(stripeCharges, i) # {}
    /\ RowsBy(stripeCustomers, i) = {}

\* C9: a token is attached to at most one provider customer and has at most one
\* PaymentMethod row for the service 'stripe'.
C9_OneCustomerOneRowPerToken ==
  \A t \in StripeTokens \ {""} :
    /\ Cardinality({customer \in stripeCustomers : customer.source = t}) <= 1
    /\ Cardinality({pm \in paymentMethods : pm.token = t /\ pm.service = "stripe"}) <= 1

Memberships(uid) ==
  {userGroup \in userGroups :
     userGroup.UserId = uid /\ userGroup.GroupId = group.id /\ userGroup.role = BACKER}

\* C11: at most one BACKER membership row exists per (user, collective), also
\* when callbacks for the same payer run concurrently.
C11_OneMembershipPerUser ==
  \A userGroup \in userGroups : Cardinality(Memberships(userGroup.UserId)) <= 1

\* a membership look-up that returns while the user is a member inserts nothing,
\* and the step succeeds unless the look-up itself failed
C12_SecondRunFindsRow ==
  \A i \in Invocations :
    (/\ Waiting(i, "addUserToGroup", "UserGroup.findOne")
     /\ IsMember(MemberOf(inv[i]))
     /\ inv'[i] # inv[i])
      => /\ userGroups' = userGroups
         /\ inv'[i].task["addUserToGroup"] \in {"done", "failed"}
         /\ inv'[i].task["addUserToGroup"] = "failed" => inv'[i].err = "storage error"

\* a membership step that has succeeded leaves its user a member
C12_MemberOnceDone ==
  \A i \in Invocations :
    (inv[i].kind \in {"post", "paypalCallback"} /\ inv[i].task["addUserToGroup"] = "done")
      => IsMember(MemberOf(inv[i]))

\* C12: a membership step that runs after the row exists finds it, inserts nothing
\* and completes successfully, so two runs one after the other yield one row.
C12_SecondRunInsertsNothing == [][C12_SecondRunFindsRow]_vars /\ []C12_MemberOnceDone

\* C12 witness: two callbacks for the same payer completed one after the other;
\* the first inserted the row, the second found it, and one row exists.
C12_Witness ==
  \E i, j \in Invocations :
    /\ inv[i].kind = "paypalCallback" /\ inv[j].kind = "paypalCallback"
    /\ inv[i].sent = 1 /\ inv[j].sent = 1
    /\ MemberOf(inv[i]) = MemberOf(inv[j])
    /\ RowsBy(userGroups, i) # {} /\ RowsBy(userGroups, j) = {}
    /\ Cardinality(Memberships(MemberOf(inv[j]))) = 1

\* the wallet-provider transactions
WalletRows == {t \in transactions : t.type = "payment"}

\* a visible wallet-provider transaction has a callback whose restore step ran
C13_VisibleOnlyByRestore ==
  \A t \in WalletRows :
    ~t.deleted =>
      \E i \in Invocations :
        /\ inv[i].kind = "paypalCallback" /\ inv[i].tx = t.id
        /\ inv[i].task["updateTransaction"] \in {"transaction.setUser", "done", "failed"}

\* the restore step is started only with the agreement executed, the
\* Subscription active, the User resolved and the membership step succeeded
C13_RestoreAfterAll ==
  \A i \in Invocations :
    (inv[i].kind = "paypalCallback" /\ inv[i].task["updateTransaction"] # "idle")
      => /\ inv[i].task["executeBillingAgreement"] = "done"
         /\ Row(billingAgreements, inv[i].res["executeBillingAgreement"]).executed
         /\ inv[i].task["activateSubscription"] = "done"
         /\ SubscriptionOf(inv[i].tx).isActive
         /\ inv[i].task["getOrCreateUser"] = "done"
         /\ \E user \in users : user.id = inv[i].res["getOrCreateUser"]
         /\ inv[i].task["addUserToGroup"] = "done"
         /\ IsMember(inv[i].res["getOrCreateUser"])

\* C13: a Transaction of paypalDonation is provisional until the restore step of
\* a callback runs, and that step runs only after the agreement was executed, the
\* Subscription activated, the User resolved and the membership step succeeded.
C13_ProvisionalUntilRestore == C13_VisibleOnlyByRestore /\ C13_RestoreAfterAll

\* C13 witness: a Transaction created by paypalDonation in this behaviour was
\* restored by a callback that completed.
C13_Witness ==
  \E t \in WalletRows : \E i \in Invocations :
    /\ t.id \in Invocations /\ inv[t.id].kind = "paypal"
    /\ ~t.deleted
    /\ inv[i].kind = "paypalCallback" /\ inv[i].tx = t.id /\ inv[i].sent = 1

\* C14: a paypalCallback that ended with a failure has left its transaction
\* provisional and has granted no membership.
C14_FailureLeavesNothing ==
  \A i \in Invocations :
    (/\ inv[i].kind = "paypalCallback" /\ inv[i].nextCalls > 0
     /\ paranoidtransaction(inv[i].tx) = "")
      => /\ Row(transactions, inv[i].tx).deleted
         /\ RowsBy(userGroups, i) = {}

\* a step of paypalDonation leaves the membership rows, the visible transactions
\* and the active Subscriptions as they were
C15_PaypalStepFrame ==
  \A i \in Invocations :
    (inv'[i].kind = "paypal" /\ inv'[i] # inv[i])
      => /\ userGroups' = userGroups
         /\ {t \in transactions' : ~t.deleted} = {t \in transactions : ~t.deleted}
         /\ {s \in subscriptions' : s.isActive} = {s \in subscriptions : s.isActive}

\* no membership row was inserted by a paypalDonation
C15_NoMembershipByPaypal ==
  \A i \in Invocations : inv[i].kind = "paypal" => RowsBy(userGroups, i) = {}

\* C15: paypalDonation never grants a membership, never reveals the transaction
\* it created and never marks the Subscription active, whether it succeeds or fails.
C15_InitiationFrame == [][C15_PaypalStepFrame]_vars /\ []C15_NoMembershipByPaypal

\* C15 witness: one paypalDonation succeeded and one failed after it created its
\* Transaction; both Transactions are provisional, the Subscriptions inactive and
\* there is no membership row.
C15_Witness ==
  \E i, j \in Invocations :
    /\ inv[i].kind = "paypal" /\ inv[i].sent = 1
    /\ inv[j].kind = "paypal" /\ inv[j].task["createBillingAgreement"] = "failed"
    /\ \A k \in {i, j} : Row(transactions, k).deleted /\ ~SubscriptionOf(k).isActive
    /\ userGroups = {}

\* C16: a plan create refused because another request created the plan in the
\* meantime is not reported to the completion handler as an error.
C16_RaceNotReported ==
  \A i \in Invocations :
    inv[i].kind = "post" => inv[i].err # "Plan already exists"

\* what the return of stripe.plans.retrieve leads to: the create call when the
\* plan does not exist, the subscription call when it does, the failure of the
\* step on another error; the retrieval itself creates nothing
C17_AfterRetrieve ==
  \A i \in Invocations :
    (Waiting(i, "createCharge", "stripe.plans.retrieve") /\ inv'[i] # inv[i])
      => LET exists == PlanExists(PlanOf(inv[i]).id)
             next == inv'[i].task["createCharge"]
         IN  /\ stripePlans' = stripePlans
             /\ next \in {"stripe.plans.create", "stripe.customers.createSubscription",
                          "failed"}
             /\ next = "stripe.plans.create" => ~exists
             /\ next = "stripe.customers.createSubscription" => exists
             /\ next = "failed" => /\ inv'[i].err = "provider error"
                                   /\ inv'[i].nextCalls = 1 /\ inv'[i].sent = 0

\* a plan is created only by the create call that follows a "No such plan"
C17_CreatedOnlyByCreate ==
  stripePlans' # stripePlans
    => \E i \in Invocations :
         /\ Waiting(i, "createCharge", "stripe.plans.create")
         /\ stripePlans' = stripePlans \cup {PlanOf(inv[i])}

\* C17: getOrCreatePlan calls the plan creation if and only if the retrieval
\* reported "not found"; a retrieved plan is used without creating, and another
\* retrieval error fails the step without creating.
C17_CreateIffNotFound == [][C17_AfterRetrieve /\ C17_CreatedOnlyByCreate]_vars

\* C17 witness: two subscription requests for the same plan were both charged;
\* the first found no plan and created it, the second retrieved it and created none.
C17_Witness ==
  \E i, j \in Invocations :
    /\ i # j
    /\ inv[i].kind = "post" /\ inv[j].kind = "post"
    /\ isSubscription(inv[i]) /\ isSubscription(inv[j])
    /\ inv[i].task["createCharge"] = "done" /\ inv[j].task["createCharge"] = "done"
    /\ stripePlans = {PlanOf(inv[i])} /\ PlanOf(inv[j]) = PlanOf(inv[i])

\* C18: a visible wallet-provider transaction is associated with its payer User.
C18_VisibleHasUser ==
  \A t \in WalletRows : ~t.deleted => t.UserId # 0

\* the order the claim gives the steps of paypalDonation
InitiationOrder ==
  <<"getPaypalConfig", "createTransaction", "createPlan", "activatePlan",
    "createBillingAgreement", "updateSubscription">>

\* C19: in paypalDonation every step starts only after the previous one succeeded;
\* the provisional Transaction exists before the first wallet-provider call, the
\* agreement is created for an activated plan, and the links are returned only
\* after the agreement payload was saved on the Subscription.
C19_InitiationInOrder ==
  \A i \in Invocations :
    inv[i].kind = "paypal" =>
      /\ \A k \in 2..Len(InitiationOrder) :
           inv[i].task[InitiationOrder[k]] # "idle"
             => inv[i].task[InitiationOrder[k - 1]] = "done"
      /\ inv[i].task["createPlan"] # "idle"
           => \E t \in RowsBy(transactions, i) : t.type = "payment"
      /\ RowsBy(billingPlans, i) # {} => RowsBy(transactions, i) # {}
      /\ \A agreement \in RowsBy(billingAgreements, i) :
           /\ agreement.planState = "ACTIVE"
           /\ Row(billingPlans, agreement.plan).state = "ACTIVE"
      /\ inv[i].sent = 1
           => /\ RowsBy(billingAgreements, i) # {}
              /\ SubscriptionOf(i).data = inv[i].res["createBillingAgreement"]
              /\ inv[i].res["createBillingAgreement"] # 0

\* C19 witness: a paypalDonation returned its approval links.
C19_Witness ==
  \E i \in Invocations :
    /\ inv[i].kind = "paypal" /\ inv[i].sent = 1
    /\ RowsBy(billingAgreements, i) # {}
    /\ Row(billingPlans, i).state = "ACTIVE"

C21_PathsAndMembership ==
  \A i \in Invocations :
    (/\ inv[i].kind = "post" /\ inv[i].task["createCharge"] = "done"
     /\ AllCallsSucceeded(inv[i]) /\ Quiescent(inv[i]))
      => /\ RowsBy(donations, i) # {}
         /\ \A donation \in RowsBy(donations, i) :
              donation.subscription = isSubscription(inv[i])
         /\ isSubscription(inv[i]) => RowsBy(transactions, i) = {}
         /\ inv[i].task["createTransaction"] = "done"
         /\ inv[i].task["addUserToGroup"] = "done"

\* C22: a one-time charge of amount a whose calls all succeeded has, once at rest,
\* sent a * 100 to the provider and stored a Transaction with amount a * 100 and
\* with platformFee the fee of the charge response or else 5% of a * 100.
C22_AmountsAndFee ==
  \A i \in Invocations :
    (/\ ValidOneTime(inv[i]) /\ inv[i].task["createCharge"] = "done"
     /\ AllCallsSucceeded(inv[i]) /\ Quiescent(inv[i]))
      => /\ \E charge \in RowsBy(stripeCharges, i) :
              /\ charge.amount = inv[i].amount * 100
              /\ \E t \in RowsBy(transactions, i) :
                   /\ t.amount = inv[i].amount * 100
                   /\ t.platformFee = IF charge.application_fee # 0
                                      THEN charge.application_fee
                                      ELSE (5 * inv[i].amount * 100) \div 100

\* C23: a paypalCallback with a token for a transaction that does not exist is
\* answered with a not-found error; no step of its graph is started, so the
\* billing agreement is not executed, and it creates no User and no membership.
C23_UnknownTransactionNotFound ==
  \A i \in Invocations :
    (inv[i].kind = "paypalCallback" /\ ~\E t \in transactions : t.id = inv[i].tx)
      => /\ inv[i].nextCalls = 1 /\ inv[i].err = "Not Found" /\ inv[i].sent = 0
         /\ ~Started(inv[i])
         /\ RowsBy(users, i) = {} /\ RowsBy(userGroups, i) = {}

\* C23 witness: a callback with a token for a transaction that does not exist
\* was answered while an approved agreement of another donation is unexecuted.
C23_Witness ==
  \E i \in Invocations :
    /\ inv[i].kind = "paypalCallback" /\ inv[i].token # "" /\ inv[i].tx = 0
    /\ inv[i].nextCalls = 1
    /\ \E agreement \in billingAgreements : ~agreement.executed
====
